---- MODULE Spec2Model ----
(***************************************************************************)
(* Model of parse_iheart_json.py: station_info (one HTTP lookup, response  *)
(* validation, JSON decoding, the `ok` check) and get_station_url /        *)
(* detect_stream (stream selection over the record's `streams` mapping).   *)
(*                                                                         *)
(* Python values are modelled as follows.                                  *)
(*   - a JSON string is a sequence of characters; None is a separate       *)
(*     value.  Both are carried as [null, s] so that `not v` (truthiness)  *)
(*     is computed the way Python computes it: None and '' are falsy.      *)
(*   - a dict is a function whose DOMAIN is the set of keys present;       *)
(*     d[k] on an absent key raises KeyError.                              *)
(*   - a call's outcome is a record whose `kind` is "return" or the name   *)
(*     of the exception class that propagates out of the call.             *)
(*   - print() appends a line to the `printed` sequence of the call.       *)
(***************************************************************************)
EXTENDS Integers, Sequences, FiniteSets, TLC

VARIABLES response, info, station, last, prev

vars == <<response, info, station, last, prev>>

(***************************************************************************)
(* Bounds                                                                  *)
(***************************************************************************)
\* longest URL string stored in `streams` (0 is the empty string)
MaxUrlLen == 2

(***************************************************************************)
(* Values                                                                  *)
(***************************************************************************)
None == [null |-> TRUE, s |-> <<>>]

Str(s) == [null |-> FALSE, s |-> s]

\* the URL string of n characters
Url(n) == Str([i \in 1..n |-> "x"])

\* Python truthiness of None / str, as used by `if (x):` and `if (not x):`
Truthy(v) == ~v.null /\ Len(v.s) > 0

StreamValues == {None} \cup {Url(n) : n \in 0..MaxUrlLen}

preference_order_swapped ==
    <<"pls_stream", "shoutcast_stream", "secure_rtmp_stream", "stw_stream">>

preference_order ==
    <<"shoutcast_stream", "pls_stream", "secure_rtmp_stream", "stw_stream">>

StreamKeys == {"shoutcast_stream", "pls_stream", "secure_rtmp_stream", "stw_stream"}

\* every `streams` mapping: any subset of the keys, each with any value
StreamDicts == UNION {[D -> StreamValues] : D \in SUBSET StreamKeys}

StreamTypes == {"auto", "rtmp", "shout", "stw", "pls", "mp3"}

ErrorMsgs == {"bad id"}

JSON_UTF8 == "application/json; charset=utf-8"

ContentTypes == {JSON_UTF8, "application/json", "text/html; charset=utf-8"}

StwWarning == "warning: using stw_stream, this stream type is not known to work anywhere"

AutoUsing(candidate) == "stream type auto: using " \o candidate

NoSuchStream == "Requested stream does not exist"

(***************************************************************************)
(* The HTTP response and its JSON body                                     *)
(***************************************************************************)
\* A body is either not JSON at all, or a JSON object given as its members
\* in document order (a name may occur more than once in a JSON text).
Member(n, v) == [name |-> n, value |-> v]

NotJson == [json |-> FALSE, members |-> <<>>]

ErrorParts == {<<>>} \cup {<<Member("error", e)>> : e \in ErrorMsgs}

RepeatedOkParts == {<<>>} \cup {<<Member("ok", b)>> : b \in BOOLEAN}

Bodies ==
    {NotJson} \cup
    { [json |-> TRUE,
       members |-> <<Member("ok", b)>> \o ep \o <<Member("streams", sd)>> \o rp] :
        b \in BOOLEAN, ep \in ErrorParts, sd \in StreamDicts, rp \in RepeatedOkParts }

Responses == [ctype : ContentTypes, body : Bodies]

\* dict[k] = v
SetItem(d, k, v) == [x \in (DOMAIN d) \cup {k} |-> IF x = k THEN v ELSE d[x]]

\* the dict built from the first n members: a repeated name keeps its last value
RECURSIVE ObjectOf(_, _)
ObjectOf(members, n) ==
    IF n = 0 THEN <<>>
    ELSE SetItem(ObjectOf(members, n - 1), members[n].name, members[n].value)

Malformed == [malformed |-> TRUE]

json_loads(body) ==
    IF ~body.json THEN Malformed ELSE ObjectOf(body.members, Len(body.members))

(***************************************************************************)
(* station_info                                                            *)
(***************************************************************************)
NoStation == [none |-> TRUE]

Raised(kind, msg, read) ==
    [kind |-> kind, msg |-> msg, ret |-> NoStation, body_read |-> read]

Returned(d) == [kind |-> "return", msg |-> "", ret |-> d, body_read |-> TRUE]

\* lines 49-52: the `ok` check on the decoded record
check_ok(d) ==
    IF ~d["ok"]
    THEN IF "error" \in DOMAIN d
         THEN Raised("RuntimeError", d["error"], TRUE)
         ELSE Raised("KeyError", "error", TRUE)
    ELSE Returned(d)

station_info_no_assert(resp) ==
    LET d == json_loads(resp.body)
    IN  IF d = Malformed THEN Raised("ValueError", "", TRUE) ELSE check_ok(d)

station_info_ignore_ok(resp) ==
    IF resp.ctype # JSON_UTF8
    THEN Raised("AssertionError", "", FALSE)
    ELSE LET d == json_loads(resp.body)
         IN  IF d = Malformed THEN Raised("ValueError", "", TRUE) ELSE Returned(d)

\* The outcome of station_info on the response urlopen returned.  The assert
\* on the Content-Type header runs before response.read().
station_info(resp) ==
    IF resp.ctype # JSON_UTF8
    THEN Raised("AssertionError", "", FALSE)
    ELSE LET d == json_loads(resp.body)
         IN  IF d = Malformed THEN Raised("ValueError", "", TRUE) ELSE check_ok(d)


(***************************************************************************)
(* detect_stream                                                           *)
(***************************************************************************)
\* The outcome of a selection step: what was returned or raised, and the
\* lines printed on the way.
Result(kind, url, msg, printed) ==
    [kind |-> kind, url |-> url, msg |-> msg, printed |-> printed]

\* The for/else loop over preference_order from position i on.  The first
\* candidate that is a key of stream_dict is assigned to `choice` and the
\* loop breaks; the else clause runs only when the loop ends without break,
\* and then `choice` was never assigned, so `return choice` raises
\* UnboundLocalError.
RECURSIVE scan(_, _, _)
scan(order, stream_dict, i) ==
    IF i > Len(order)
    THEN Result("UnboundLocalError", None, "choice", <<StwWarning>>)
    ELSE IF order[i] \in DOMAIN stream_dict
         THEN Result("return", stream_dict[order[i]], "", <<AutoUsing(order[i])>>)
         ELSE scan(order, stream_dict, i + 1)

\* as scan, but a candidate whose value is falsy is passed over
RECURSIVE scan_skip_falsy(_, _, _)
scan_skip_falsy(order, stream_dict, i) ==
    IF i > Len(order)
    THEN Result("UnboundLocalError", None, "choice", <<StwWarning>>)
    ELSE IF order[i] \in DOMAIN stream_dict /\ Truthy(stream_dict[order[i]])
         THEN Result("return", stream_dict[order[i]], "", <<AutoUsing(order[i])>>)
         ELSE scan_skip_falsy(order, stream_dict, i + 1)

detect_stream_skip_falsy(st) == scan_skip_falsy(preference_order, st["streams"], 1)

detect_stream(st) == scan(preference_order, st["streams"], 1)

(***************************************************************************)
(* get_station_url                                                         *)
(***************************************************************************)
stream_key_pasted(stream_type) ==
    CASE stream_type = "rtmp"  -> "secure_rtmp_stream"
      [] stream_type = "shout" -> "shoutcast_stream"
      [] stream_type = "stw"   -> "stw_stream"
      [] stream_type = "pls"   -> "stw_stream"

\* the key each explicit branch of the if/elif chain subscripts
stream_key(stream_type) ==
    CASE stream_type = "rtmp"  -> "secure_rtmp_stream"
      [] stream_type = "shout" -> "shoutcast_stream"
      [] stream_type = "stw"   -> "stw_stream"
      [] stream_type = "pls"   -> "pls_stream"

ExplicitTypes == {"rtmp", "shout", "stw", "pls"}

branch_get(st, stream_type) ==
    LET key == stream_key(stream_type)
        v   == IF key \in DOMAIN st["streams"] THEN st["streams"][key] ELSE None
    IN  IF Truthy(v)
        THEN Result("assigned", v, "",
                    IF stream_type = "stw" THEN <<StwWarning>> ELSE <<>>)
        ELSE Result("assigned", None, "", <<>>)

branch_warn_first(st, stream_type) ==
    LET key  == stream_key(stream_type)
        warn == IF stream_type = "stw" THEN <<StwWarning>> ELSE <<>>
    IN  IF key \notin DOMAIN st["streams"]
        THEN Result("KeyError", None, key, warn)
        ELSE IF Truthy(st["streams"][key])
             THEN Result("assigned", st["streams"][key], "", warn)
             ELSE Result("assigned", None, "", warn)

\* One explicit branch (lines 139-151): station['streams'][key] raises
\* KeyError when the key is absent; station_url is assigned only when the
\* value is truthy, and the stw branch prints its warning inside that `if`.
branch(st, stream_type) ==
    LET key == stream_key(stream_type)
    IN  IF key \notin DOMAIN st["streams"]
        THEN Result("KeyError", None, key, <<>>)
        ELSE IF Truthy(st["streams"][key])
             THEN Result("assigned", st["streams"][key], "",
                         IF stream_type = "stw" THEN <<StwWarning>> ELSE <<>>)
             ELSE Result("assigned", None, "", <<>>)

\* lines 132-151: station_url after the if/elif chain, or the exception
\* that left it
assign_station_url(st, stream_type) ==
    IF stream_type = "auto"
    THEN LET r == detect_stream(st)
         IN  IF r.kind = "return" THEN [r EXCEPT !.kind = "assigned"] ELSE r
    ELSE IF stream_type \in ExplicitTypes
         THEN branch(st, stream_type)
         ELSE Result("assigned", None, "", <<>>)

\* lines 153-157
final_check(r) ==
    IF r.kind # "assigned" THEN r
    ELSE IF ~Truthy(r.url)
         THEN Result("RuntimeError", None, NoSuchStream, r.printed)
         ELSE Result("return", r.url, "", r.printed)

\* del d[k]
DelItem(d, k) == [x \in (DOMAIN d) \ {k} |-> d[x]]

Call(st, stream_type, r, after) ==
    [op |-> "get_station_url", station |-> st, stream_type |-> stream_type,
     kind |-> r.kind, url |-> r.url, msg |-> r.msg, printed |-> r.printed,
     station_after |-> after]

\* as get_station_url, but the selected entry is taken out of `streams`
get_station_url_pop(st, stream_type) ==
    LET r == final_check(assign_station_url(st, stream_type))
        taken == {k \in DOMAIN st["streams"] :
                     r.kind = "return" /\ st["streams"][k] = r.url}
        k == CHOOSE x \in taken : TRUE
    IN  Call(st, stream_type, r,
             IF taken = {} THEN st
             ELSE [st EXCEPT !["streams"] = DelItem(st["streams"], k)])

\* The whole call: its outcome, what it printed, and the station dictionary
\* as the call leaves it (the code only reads it).
get_station_url(st, stream_type) ==
    Call(st, stream_type, final_check(assign_station_url(st, stream_type)), st)


(***************************************************************************)
(* The program: one lookup, then any number of selections on its record    *)
(***************************************************************************)
NoResponse == [none |-> TRUE]

NoCall == [op |-> "none"]

Init ==
    /\ response = NoResponse
    /\ info = NoCall
    /\ station = NoStation
    /\ last = NoCall
    /\ prev = NoCall

\* station = station_info(station_id).  The record is built from one
\* response; an exception leaves the caller without a record.  A behaviour
\* follows one record: the lookup runs once, and its outcome does not depend
\* on anything an earlier call left behind (station_info has no state).
StationInfo ==
    /\ response = NoResponse
    /\ \E r \in Responses :
        /\ response' = r
        /\ info' = station_info(r)
        /\ station' = station_info(r).ret
    /\ UNCHANGED <<last, prev>>

\* get_station_url(station, stream_type) on the record the lookup returned
GetStationUrl ==
    /\ station # NoStation
    /\ \E stream_type \in StreamTypes :
        LET c == get_station_url(station, stream_type)
        IN  /\ last' = c
            /\ prev' = last
            /\ station' = c.station_after
    /\ UNCHANGED <<response, info>>

Next == StationInfo \/ GetStationUrl

Spec == Init /\ [][Next]_vars


(***************************************************************************)
(* Vocabulary of the properties, stated independently of the operators     *)
(* above                                                                   *)
(***************************************************************************)
FixedOrder == <<"shoutcast_stream", "pls_stream", "secure_rtmp_stream", "stw_stream">>

Rank(k) == CHOOSE i \in 1..Len(FixedOrder) : FixedOrder[i] = k

\* the recognized keys present in a streams mapping
Present(sd) == {k \in DOMAIN sd : \E i \in 1..Len(FixedOrder) : FixedOrder[i] = k}

\* the present key that comes first in the fixed order
FirstKey(sd) == CHOOSE k \in Present(sd) : \A j \in Present(sd) : Rank(k) <= Rank(j)

MappedKey(stream_type) ==
    IF stream_type = "rtmp" THEN "secure_rtmp_stream"
    ELSE IF stream_type = "shout" THEN "shoutcast_stream"
    ELSE IF stream_type = "stw" THEN "stw_stream"
    ELSE "pls_stream"

IsExplicit(stream_type) == stream_type \in {"rtmp", "shout", "stw", "pls"}

Called(c) == c.op = "get_station_url"

StreamsOf(c) == c.station["streams"]

\* how many times a call printed the stw warning
Warnings(c) == Cardinality({i \in DOMAIN c.printed : c.printed[i] = StwWarning})

FailedNoSuchStream(c) == c.kind = "RuntimeError" /\ c.msg = NoSuchStream

ReturnedUrl(c, v) == c.kind = "return" /\ c.url = v

NonEmpty(v) == v # None /\ v # Str(<<>>)

\* the value the last member called `name` gives it
LastIndex(members, name) ==
    CHOOSE i \in DOMAIN members :
        /\ members[i].name = name
        /\ \A j \in DOMAIN members : members[j].name = name => j <= i

Names(members) == {members[i].name : i \in DOMAIN members}

Decoded(members) == [n \in Names(members) |-> members[LastIndex(members, n)].value]

Looked == response # NoResponse

(***************************************************************************)
(* C1                                                                      *)
(***************************************************************************)
\* C1 as stated: whenever streams holds at least one recognized key,
\* get_station_url(station, 'auto') returns the value stored under the
\* first present key of the fixed order.
C1_AutoReturnsFirstPresent ==
    (Called(last) /\ last.stream_type = "auto" /\ Present(StreamsOf(last)) # {})
        => ReturnedUrl(last, StreamsOf(last)[FirstKey(StreamsOf(last))])

\* C1 amended: whenever streams holds at least one recognized key and the
\* value under the first present key of the fixed order is non-empty,
\* get_station_url(station, 'auto') returns that value, whichever later
\* keys are present too, and prints no stw warning.
C1_AutoReturnsFirstPresentNonEmpty ==
    (/\ Called(last) /\ last.stream_type = "auto"
     /\ Present(StreamsOf(last)) # {}
     /\ NonEmpty(StreamsOf(last)[FirstKey(StreamsOf(last))]))
        => /\ ReturnedUrl(last, StreamsOf(last)[FirstKey(StreamsOf(last))])
           /\ Warnings(last) = 0

\* an auto call on {pls_stream, stw_stream} with different URLs returned
\* the pls_stream one
C1_Witness ==
    /\ Called(last) /\ last.stream_type = "auto"
    /\ DOMAIN StreamsOf(last) = {"pls_stream", "stw_stream"}
    /\ StreamsOf(last)["pls_stream"] = Url(2)
    /\ StreamsOf(last)["stw_stream"] = Url(1)
    /\ ReturnedUrl(last, Url(2))

(***************************************************************************)
(* C2                                                                      *)
(***************************************************************************)
\* C2: on an empty streams mapping auto-selection fails with the
\* RuntimeError "Requested stream does not exist" and with nothing else.
C2_AutoEmptyFailsNoSuchStream ==
    (Called(last) /\ last.stream_type = "auto" /\ Present(StreamsOf(last)) = {})
        => FailedNoSuchStream(last)

(***************************************************************************)
(* C3                                                                      *)
(***************************************************************************)
\* C3 as stated: an explicit stream type whose mapped key is absent from
\* streams fails with "Requested stream does not exist".
C3_ExplicitAbsentFailsNoSuchStream ==
    (/\ Called(last) /\ IsExplicit(last.stream_type)
     /\ MappedKey(last.stream_type) \notin DOMAIN StreamsOf(last))
        => FailedNoSuchStream(last)

\* C3 amended: an explicit stream type whose mapped key is absent from
\* streams fails with the KeyError of the subscript, naming that key; no
\* URL is returned and nothing is printed.
C3_ExplicitAbsentRaisesKeyError ==
    (/\ Called(last) /\ IsExplicit(last.stream_type)
     /\ MappedKey(last.stream_type) \notin DOMAIN StreamsOf(last))
        => /\ last.kind = "KeyError"
           /\ last.msg = MappedKey(last.stream_type)
           /\ last.printed = <<>>

\* 'shout' was asked of a record that has other streams but no
\* shoutcast_stream
C3_Witness ==
    /\ Called(last) /\ last.stream_type = "shout"
    /\ DOMAIN StreamsOf(last) = {"pls_stream", "stw_stream"}
    /\ last.kind = "KeyError"

(***************************************************************************)
(* C4                                                                      *)
(***************************************************************************)
\* C4 as stated: every get_station_url(station, 'stw') prints the stw
\* warning exactly once, whether it succeeds or fails.
C4_StwAlwaysWarnsOnce ==
    (Called(last) /\ last.stream_type = "stw") => Warnings(last) = 1

\* C4 amended: get_station_url(station, 'stw') prints the stw warning
\* exactly once when it returns a URL and not at all when it fails.
C4_StwWarnsOnceIffReturns ==
    (Called(last) /\ last.stream_type = "stw")
        => Warnings(last) = (IF last.kind = "return" THEN 1 ELSE 0)

\* a 'stw' call returned the stw_stream URL and warned once, on a record
\* whose shoutcast_stream is empty, so that 'shout' fails on it
C4_Witness ==
    /\ Called(last) /\ last.stream_type = "stw"
    /\ "stw_stream" \in DOMAIN StreamsOf(last)
    /\ ReturnedUrl(last, StreamsOf(last)["stw_stream"])
    /\ Warnings(last) = 1
    /\ Called(prev) /\ prev.stream_type = "shout" /\ FailedNoSuchStream(prev)
    /\ Warnings(prev) = 0

(***************************************************************************)
(* C5                                                                      *)
(***************************************************************************)
\* C5: on a streams mapping holding only stw_stream (with a URL),
\* auto-selection returns that URL and prints the stw warning.
C5_AutoOnlyStwWarns ==
    (/\ Called(last) /\ last.stream_type = "auto"
     /\ DOMAIN StreamsOf(last) = {"stw_stream"}
     /\ NonEmpty(StreamsOf(last)["stw_stream"]))
        => /\ ReturnedUrl(last, StreamsOf(last)["stw_stream"])
           /\ Warnings(last) >= 1


(***************************************************************************)
(* C6                                                                      *)
(***************************************************************************)
\* C6: after a response with the JSON content type and a JSON body,
\* station_info looks at the decoded `ok`: when it is false (and the record
\* has an `error`), the call raises RuntimeError with exactly that error
\* message; when it is true, the call returns the whole decoded record.
C6_OkFieldDecides ==
    (Looked /\ response.ctype = JSON_UTF8 /\ response.body.json)
        => LET d == Decoded(response.body.members)
           IN  IF d["ok"]
               THEN info.kind = "return" /\ info.ret = d
               ELSE "error" \in DOMAIN d
                        => /\ info.kind = "RuntimeError"
                           /\ info.msg = d["error"]
                           /\ info.ret = NoStation

\* the body said ok: true first and ok: false last, with error "bad id",
\* and the lookup failed with that message
C6_Witness ==
    /\ Looked /\ response.ctype = JSON_UTF8 /\ response.body.json
    /\ response.body.members[1].value = TRUE
    /\ ~Decoded(response.body.members)["ok"]
    /\ info.kind = "RuntimeError" /\ info.msg = "bad id"

(***************************************************************************)
(* C7                                                                      *)
(***************************************************************************)
\* C7: when the Content-Type is not exactly "application/json;
\* charset=utf-8", station_info fails with the assertion failure before the
\* body is read; no station error is raised and no record is returned.
C7_BadContentTypeFailsFirst ==
    (Looked /\ response.ctype # JSON_UTF8)
        => /\ info.kind = "AssertionError"
           /\ ~info.body_read
           /\ info.ret = NoStation
           /\ station = NoStation

\* a response of type "application/json" (no charset) whose body would have
\* been a station error was rejected unread
C7_Witness ==
    /\ Looked /\ response.ctype = "application/json"
    /\ response.body.json
    /\ ~Decoded(response.body.members)["ok"]
    /\ "error" \in DOMAIN Decoded(response.body.members)
    /\ info.kind = "AssertionError" /\ ~info.body_read

(***************************************************************************)
(* C8                                                                      *)
(***************************************************************************)
\* C8: for an explicit stream type whose mapped key is present in streams,
\* get_station_url fails with "Requested stream does not exist" when the
\* value is empty (None or ''), and returns the value when it is not.
C8_ExplicitPresent ==
    (/\ Called(last) /\ IsExplicit(last.stream_type)
     /\ MappedKey(last.stream_type) \in DOMAIN StreamsOf(last))
        => LET v == StreamsOf(last)[MappedKey(last.stream_type)]
           IN  IF NonEmpty(v) THEN ReturnedUrl(last, v) ELSE FailedNoSuchStream(last)

\* 'pls' failed on an empty pls_stream after 'rtmp' returned the URL of a
\* record whose other streams hold other values
C8_Witness ==
    /\ Called(last) /\ last.stream_type = "pls"
    /\ "pls_stream" \in DOMAIN StreamsOf(last)
    /\ StreamsOf(last)["pls_stream"] = Str(<<>>)
    /\ FailedNoSuchStream(last)
    /\ Called(prev) /\ prev.stream_type = "rtmp"
    /\ ReturnedUrl(prev, Url(2))
    /\ "stw_stream" \in DOMAIN StreamsOf(prev)
    /\ StreamsOf(prev)["stw_stream"] = Url(1)

C10_AutoNoFallback ==
    (/\ Called(last) /\ last.stream_type = "auto"
     /\ Present(StreamsOf(last)) # {}
     /\ ~NonEmpty(StreamsOf(last)[FirstKey(StreamsOf(last))]))
        => FailedNoSuchStream(last)

\* shoutcast_stream is '' and pls_stream holds a URL: auto failed
C10_Witness ==
    /\ Called(last) /\ last.stream_type = "auto"
    /\ DOMAIN StreamsOf(last) = {"shoutcast_stream", "pls_stream"}
    /\ StreamsOf(last)["shoutcast_stream"] = Str(<<>>)
    /\ StreamsOf(last)["pls_stream"] = Url(1)
    /\ FailedNoSuchStream(last)


====
